---- MODULE Spec2Model ----
(***************************************************************************)
(* TLSF: two-level segregated fit allocator (src/src/utils.h holds both    *)
(* the helper macros and the allocator, tlsf.c).  The allocator state      *)
(* (struct tlsf), the block headers it owns and the outcome of the last    *)
(* call are one record, threaded through operators that follow the C       *)
(* functions statement by statement.                                       *)
(*                                                                         *)
(* Representation:                                                         *)
(*  - a bitmap word is the set of its set bit positions;                   *)
(*  - l2_free and map are sparse: an absent key is a zero word / a NULL    *)
(*    head;                                                                *)
(*  - hdr maps a block pointer to the header the allocator owns there.     *)
(*    INT: the pointer is the header's address inside the extent; memory   *)
(*    the allocator does not own (payloads, destroyed headers, the         *)
(*    caller's initial bytes) has arbitrary content.  EXT: the pointer is  *)
(*    the malloc'ed tlsf_extblk_t record;                                  *)
(*  - the seg-list links of a block that is in no list are dead (the next  *)
(*    insert_block writes both before any read) and are kept NULL;         *)
(*  - a C function is a chain of operators, one per group of statements,   *)
(*    each taking the state the previous one left.  Once an assertion has  *)
(*    failed (fail = "assert") or a load went through a pointer with no    *)
(*    header behind it (fail = "wild") every later step leaves the state   *)
(*    alone.                                                               *)
(*                                                                         *)
(* Specifications: Spec runs any sequence of calls on small extents in     *)
(* both modes and both builds; DeepSpec follows a bounded number of calls  *)
(* (left counts them down) on a larger INT extent; SmallSpec covers the    *)
(* extent of basic_test, extents below TLSF_MBS and requests of 0; BigSpec *)
(* an EXT extent long enough for size classes that hold several lengths;   *)
(* ChainSpec starts from a heap populated with many blocks.                *)
(***************************************************************************)
EXTENDS Integers, Sequences, FiniteSets, TLC

\* ---- program constants -------------------------------------------------
TLSF_FLI_MAX == 64
TLSF_SLI_SHIFT == 5
TLSF_SLI_MAX == 2 ^ TLSF_SLI_SHIFT
TLSF_MBS == 32
TLSF_BLK_FREE == 1
TLSF_BLKHDR_LEN == 16
NULL == 0
\* sizeof(int) * CHAR_BIT: ffsl() is __builtin_ffs(), which takes an int
INT_BITS == 32
\* sizeof(uintptr_t): the width of one pointer store
PTR_LEN == 8

\* ---- bounds of the model -----------------------------------------------
\* extents handed to tlsf_create are MinUnits..MaxUnits times TLSF_MBS
MinUnits == 4
MaxUnits == 5
\* requests are drawn from 1 .. MaxReqUnits * TLSF_MBS (see Requests)
MaxReqUnits == 2
\* the base pointer is BaseUnits * TLSF_BLKHDR_LEN (word aligned, non-null)
BaseUnits == 64
\* malloc() hands out the record addresses 1 .. MaxRecs
MaxRecs == 16
\* DeepSpec: one extent of DeepUnits * TLSF_MBS, followed for MaxCalls calls
DeepUnits == 6
MaxCalls == 11

\* BigSpec: one extent of BigUnits * TLSF_MBS, followed for BigCalls calls
BigUnits == 130
BigCalls == 8
\* ChainSpec: an extent cut into ChainBlocks blocks, followed for
\* ChainCalls calls
ChainBlocks == 12
ChainCalls == 3
\* basic_test: const size_t len = 32 + 32 + 32
BasicLen == 96

\* ---- helper macros (utils.h) --------------------------------------------
Min(S) == CHOOSE x \in S : \A y \in S : x <= y
Max(S) == CHOOSE x \in S : \A y \in S : x >= y

roundup2(x, m) == ((x + m - 1) \div m) * m

\* flsl(): position of the last set bit of a number, 1-based; 0 for 0
flsl(x) == IF x <= 0 THEN 0 ELSE 1 + Max({k \in 0..30 : 2 ^ k <= x})
ilog2(x) == flsl(x) - 1

\* ffsl()/flsl() on a bitmap word held as the set of its set bits.
\* ffsl is __builtin_ffs: the word is first truncated to an int.
ffsl_bits(w) ==
    LET lo == {b \in w : b < INT_BITS}
    IN  IF lo = {} THEN 0 ELSE Min(lo) + 1
flsl_bits(w) == IF w = {} THEN 0 ELSE Max(w) + 1
\* w & (~0UL << n)
mask_from(w, n) == {b \in w : b >= n}

\* ---- the state record -----------------------------------------------------
L2(t, fli) == IF fli \in DOMAIN t.l2_free THEN t.l2_free[fli] ELSE {}
MapAt(t, fli, sli) ==
    IF <<fli, sli>> \in DOMAIN t.map THEN t.map[<<fli, sli>>] ELSE NULL

SetL2(t, fli, w) ==
    LET keep == (DOMAIN t.l2_free \ {fli}) \cup (IF w = {} THEN {} ELSE {fli})
    IN  [t EXCEPT !.l2_free =
            [f \in keep |-> IF f = fli THEN w ELSE t.l2_free[f]]]
SetMap(t, fli, sli, p) ==
    LET c == <<fli, sli>>
        keep == (DOMAIN t.map \ {c}) \cup (IF p = NULL THEN {} ELSE {c})
    IN  [t EXCEPT !.map = [k \in keep |-> IF k = c THEN p ELSE t.map[k]]]

Known(t, p) == p \in DOMAIN t.hdr
PutHdr(t, p, h) ==
    [t EXCEPT !.hdr = [q \in DOMAIN t.hdr \cup {p} |->
                          IF q = p THEN h ELSE t.hdr[q]]]
DropHdr(t, p) ==
    [t EXCEPT !.hdr = [q \in DOMAIN t.hdr \ {p} |-> t.hdr[q]]]

\* ASSERT(c): assert(3) of a debug build, nothing when NDEBUG is defined
ASSERT(t, c) ==
    IF t.fail # "none" \/ t.ndebug \/ c THEN t ELSE [t EXCEPT !.fail = "assert"]
\* a load through a pointer at which the allocator owns no header
Wild(t) == IF t.fail # "none" THEN t ELSE [t EXCEPT !.fail = "wild"]
Ok(t) == t.fail = "none"

\* ---- size-class mapping ---------------------------------------------------
\* get_mapping: *fli = ilog2(size); *sli = (size ^ (1UL << fli)) >> (fli - SLI_SHIFT)
get_mapping(size) ==
    LET fli == ilog2(size)
    IN  [fli |-> fli,
         sli |-> (size - 2 ^ fli) \div (2 ^ (fli - TLSF_SLI_SHIFT))]

block_length_of(len) == len - (len % 2)
block_free_of(len) == len % 2 = TLSF_BLK_FREE
block_length(t, blk) == block_length_of(t.hdr[blk].len)
block_free_p(t, blk) == block_free_of(t.hdr[blk].len)

\* ---- physical neighbours ---------------------------------------------------
space_end(t) == t.baseptr + t.size

IndexOf(q, x) == CHOOSE i \in 1..Len(q) : q[i] = x
TAILQ_NEXT(q, x) ==
    IF IndexOf(q, x) < Len(q) THEN q[IndexOf(q, x) + 1] ELSE NULL
TAILQ_PREV(q, x) == IF IndexOf(q, x) > 1 THEN q[IndexOf(q, x) - 1] ELSE NULL
TAILQ_REMOVE(q, x) == SelectSeq(q, LAMBDA y : y # x)
TAILQ_INSERT_AFTER(q, x, n) ==
    SubSeq(q, 1, IndexOf(q, x)) \o <<n>> \o SubSeq(q, IndexOf(q, x) + 1, Len(q))

\* get_prev_physblk: INT reads blk->prevblk (the union with addr)
get_prev_physblk(t, blk) ==
    IF t.blk_hdr_len # 0 THEN t.hdr[blk].addr ELSE TAILQ_PREV(t.blklist, blk)

\* get_next_physblk: nblkptr of the INT branch, and its result
nblkptr_of(t, blk) == blk + TLSF_BLKHDR_LEN + block_length(t, blk)
get_next_physblk(t, blk) ==
    IF t.blk_hdr_len # 0
    THEN IF nblkptr_of(t, blk) < space_end(t) THEN nblkptr_of(t, blk) ELSE NULL
    ELSE TAILQ_NEXT(t.blklist, blk)
\* ASSERT(nblkptr <= space_end) inside get_next_physblk
next_in_bounds(t, blk) ==
    t.blk_hdr_len # 0 => nblkptr_of(t, blk) <= space_end(t)

\* validate_blkhdr: TRUE when every assertion of it passes.  It runs only
\* inside ASSERT(), hence only in a debug build; a load through a pointer
\* with no header behind it counts as a failure (the process dies either way).
validate_blkhdr(t, blk) ==
    /\ Known(t, blk)
    /\ next_in_bounds(t, blk)
    /\ LET addr == IF t.blk_hdr_len # 0 THEN blk ELSE t.hdr[blk].addr
           nextblk == get_next_physblk(t, blk)
           prevblk == get_prev_physblk(t, blk)
           blen == block_length(t, blk)
       IN  /\ blen >= TLSF_MBS
           /\ blen <= t.size
           /\ addr >= t.baseptr
           /\ addr < space_end(t)
           /\ \/ addr = t.baseptr
              \/ /\ Known(t, prevblk)
                 /\ next_in_bounds(t, prevblk)
                 /\ get_next_physblk(t, prevblk) = blk
           /\ \/ nextblk = NULL
              \/ /\ Known(t, nextblk)
                 /\ get_prev_physblk(t, nextblk) = blk

\* ---- block headers --------------------------------------------------------
\* One pointer store into the extent (INT): it lands on a field of a header
\* the allocator owns, or in memory it does not own, or past the extent.
\* The seg-list links are fields only while the block is free.
Store(t, w, v) ==
    IF ~Ok(t) THEN t
    ELSE IF w < t.baseptr \/ w + PTR_LEN > space_end(t)
    THEN [t EXCEPT !.oob = TRUE]
    ELSE IF w \in DOMAIN t.hdr
    THEN [t EXCEPT !.hdr[w].len = v]
    ELSE IF (w - 8) \in DOMAIN t.hdr
    THEN [t EXCEPT !.hdr[w - 8].addr = v]
    ELSE IF (w - 16) \in DOMAIN t.hdr /\ block_free_p(t, w - 16)
    THEN [t EXCEPT !.hdr[w - 16].next = v]
    ELSE IF (w - 24) \in DOMAIN t.hdr /\ block_free_p(t, w - 24)
    THEN [t EXCEPT !.hdr[w - 24].prev = v]
    ELSE t

\* malloc(sizeof(tlsf_extblk_t)): the record's address
FreshRec(t) == Min((1..MaxRecs) \ DOMAIN t.hdr)
MallocCan(t) == (1..MaxRecs) \ DOMAIN t.hdr # {}

\* block_hdr_alloc, INT branch.  g is the content of the word at the new
\* header's len field, which get_next_physblk reads before line 404 sets it.
\* blk = parent + TLSF_BLKHDR_LEN + plen; blk->prevblk = parent
bha_place(t, parent, blk, g) ==
    IF blk + TLSF_BLKHDR_LEN > space_end(t) THEN Wild(t)
    ELSE IF Known(t, blk) THEN [t EXCEPT !.hdr[blk].addr = parent]
    ELSE PutHdr(t, blk, [len |-> g, addr |-> parent,
                         next |-> NULL, prev |-> NULL])
\* nblk = get_next_physblk(tlsf, blk); if (nblk) nblk->prevblk = blk
bha_link(t, blk) ==
    IF ~Ok(t) THEN t
    ELSE IF ~next_in_bounds(t, blk) /\ ~t.ndebug THEN ASSERT(t, FALSE)
    ELSE IF get_next_physblk(t, blk) = NULL THEN t
    ELSE Store(t, get_next_physblk(t, blk) + PTR_LEN, blk)
\* blk->len = len; return blk
bha_finish(t, blk, len) ==
    IF ~Ok(t) THEN t ELSE [t EXCEPT !.hdr[blk].len = len, !.ret = blk]
block_hdr_alloc_int(t, parent, len, g) ==
    LET blk == parent + TLSF_BLKHDR_LEN + block_length(t, parent)
    IN  bha_finish(bha_link(bha_place(t, parent, blk, g), blk), blk, len)

\* block_hdr_alloc, EXT branch.  mem: whether malloc() returns a record.
block_hdr_alloc_ext(t, parent, len, mem) ==
    IF ~(mem /\ MallocCan(t)) THEN [t EXCEPT !.ret = NULL]
    ELSE [PutHdr(t, FreshRec(t),
                 [len |-> len,
                  addr |-> t.hdr[parent].addr + t.hdr[parent].len,
                  next |-> NULL, prev |-> NULL])
            EXCEPT !.blklist = TAILQ_INSERT_AFTER(t.blklist, parent, FreshRec(t)),
                   !.ret = FreshRec(t)]

block_hdr_alloc(t, parent, len, g, mem) ==
    IF ~Ok(t) THEN t
    ELSE IF t.blk_hdr_len # 0 THEN block_hdr_alloc_int(t, parent, len, g)
    ELSE block_hdr_alloc_ext(t, parent, len, mem)

\* block_hdr_free, INT branch: nextblk->prevblk = blk->prevblk and the
\* ASSERT(validate_blkhdr(nextblk)) after it
bhf_patch(t, blk, nextblk) ==
    IF ~Ok(t) \/ nextblk = NULL THEN t
    ELSE Store(t, nextblk + PTR_LEN, t.hdr[blk].addr)
bhf_check(t, nextblk) ==
    IF ~Ok(t) \/ nextblk = NULL THEN t
    ELSE ASSERT(t, validate_blkhdr(t, nextblk))
\* The memset() sits inside ASSERT(); either way the header leaves the
\* allocator's ownership.  EXT: TAILQ_REMOVE and free().
bhf_release(t, blk) ==
    IF ~Ok(t) THEN t
    ELSE IF t.blk_hdr_len # 0 THEN DropHdr(t, blk)
    ELSE DropHdr([t EXCEPT !.blklist = TAILQ_REMOVE(t.blklist, blk)], blk)
block_hdr_free(t, blk) ==
    IF ~Ok(t) THEN t
    ELSE IF ~Known(t, blk) THEN Wild(t)
    ELSE IF ~t.ndebug /\ (block_free_p(t, blk) \/ ~next_in_bounds(t, blk))
    THEN ASSERT(t, FALSE)
    ELSE IF t.blk_hdr_len # 0
    THEN bhf_release(
             bhf_check(bhf_patch(t, blk, get_next_physblk(t, blk)),
                       get_next_physblk(t, blk)),
             blk)
    ELSE bhf_release(t, blk)

\* ---- segregation lists -----------------------------------------------------
\* get_mapping() shifts by fli - TLSF_SLI_SHIFT: undefined below 2^SLI_SHIFT
mapping_defined(len) == len >= 2 ^ TLSF_SLI_SHIFT

\* insert_block: the two assertions at its head
ib_check(t, blk) ==
    IF ~Ok(t) THEN t
    ELSE IF ~Known(t, blk) THEN Wild(ASSERT(t, FALSE))
    ELSE ASSERT(ASSERT(t, validate_blkhdr(t, blk)), ~block_free_p(t, blk))
\* insert_block walking the list: every free block's prev is rewritten
ib_links_walk(t, blk, head) ==
    [t EXCEPT !.hdr = [b \in DOMAIN t.hdr |->
        IF b = blk THEN [t.hdr[b] EXCEPT !.prev = NULL, !.next = head]
        ELSE IF block_free_p(t, b) THEN [t.hdr[b] EXCEPT !.prev = blk]
        ELSE t.hdr[b]]]
\* if (head) head->prev = blk; blk->prev = NULL; blk->next = head
ib_links(t, blk, head) ==
    IF head = NULL
    THEN [t EXCEPT !.hdr[blk].prev = NULL, !.hdr[blk].next = NULL]
    ELSE [t EXCEPT !.hdr[head].prev = blk,
                   !.hdr[blk].prev = NULL, !.hdr[blk].next = head]
\* free += blk->len; blk->len |= TLSF_BLK_FREE; l1_free |= ..; l2_free[fli] |= ..
ib_mark(t, blk, m) ==
    SetL2([t EXCEPT !.free = @ + t.hdr[blk].len,
                    !.hdr[blk].len = block_length_of(@) + TLSF_BLK_FREE,
                    !.l1_free = @ \cup {m.fli}],
          m.fli, L2(t, m.fli) \cup {m.sli})
ib_insert(t, blk, m, head) ==
    IF head # NULL /\ ~Known(t, head) THEN Wild(t)
    ELSE ib_mark(SetMap(ib_links(t, blk, head), m.fli, m.sli, blk), blk, m)
ib_map(t, blk, m) == ib_insert(t, blk, m, MapAt(t, m.fli, m.sli))
ib_body(t, blk) ==
    IF ~Ok(t) THEN t
    ELSE IF ~mapping_defined(t.hdr[blk].len) THEN Wild(t)
    ELSE ib_map(t, blk, get_mapping(t.hdr[blk].len))
insert_block(t, blk) == ib_body(ib_check(t, blk), blk)

\* remove_block: unlink the block from its list
rb_unlink_next(t, next, prev) ==
    IF next = NULL THEN t ELSE [t EXCEPT !.hdr[next].prev = prev]
rb_unlink_prev(t, next, prev) ==
    IF prev = NULL THEN t ELSE [t EXCEPT !.hdr[prev].next = next]
rb_unlink_head(t, blk, next, fli, sli) ==
    IF MapAt(t, fli, sli) = blk THEN SetMap(t, fli, sli, next) ELSE t
\* ASSERT(block_free_p(blk)); blk->len &= ~TLSF_BLK_FREE; free -= blk->len
rb_flag(t, blk) ==
    IF ~t.ndebug /\ ~block_free_p(t, blk) THEN ASSERT(t, FALSE)
    ELSE [t EXCEPT !.hdr[blk].len = block_length_of(@),
                   !.free = @ - block_length(t, blk)]
\* remove_block without the inner if: the first-level bit is never cleared
rb_bits_keep_l1(t, next, fli, sli) ==
    IF ~Ok(t) \/ next # NULL THEN t
    ELSE SetL2(t, fli, L2(t, fli) \ {sli})
\* if (!blk->next) { l2_free[fli] &= ~(1UL << sli);
\*                   if (l2_free[fli] == 0) l1_free &= ~(1UL << fli); }
rb_bits(t, next, fli, sli) ==
    IF ~Ok(t) \/ next # NULL THEN t
    ELSE IF L2(t, fli) \ {sli} = {}
    THEN [SetL2(t, fli, {}) EXCEPT !.l1_free = @ \ {fli}]
    ELSE SetL2(t, fli, L2(t, fli) \ {sli})
\* ASSERT(validate_blkhdr(tlsf, blk)); return blk
rb_finish(t, blk) ==
    IF ~Ok(t) THEN t
    ELSE IF ~t.ndebug /\ ~validate_blkhdr(t, blk) THEN ASSERT(t, FALSE)
    ELSE [t EXCEPT !.hdr[blk].next = NULL, !.hdr[blk].prev = NULL,
                   !.ret = blk]
rb_links(t, blk, next, prev, fli, sli) ==
    IF (next # NULL /\ ~Known(t, next)) \/ (prev # NULL /\ ~Known(t, prev))
    THEN Wild(t)
    ELSE rb_finish(
             rb_bits(
                 rb_flag(
                     rb_unlink_head(
                         rb_unlink_prev(rb_unlink_next(t, next, prev),
                                        next, prev),
                         blk, next, fli, sli),
                     blk),
                 next, fli, sli),
             blk)
rb_block(t, blk, fli, sli) ==
    IF blk = NULL \/ ~Known(t, blk) THEN Wild(ASSERT(t, blk # NULL))
    ELSE rb_links(t, blk, t.hdr[blk].next, t.hdr[blk].prev, fli, sli)
\* remove_block: the removed block is left in .ret
remove_block(t, target, fli, sli) ==
    IF ~Ok(t) THEN t
    ELSE rb_block(t, IF target = NULL THEN MapAt(t, fli, sli) ELSE target,
                  fli, sli)

\* ---- split and merge ------------------------------------------------------
\* split_block without its else branch: the length stays cut after a
\* failed block_hdr_alloc
sb_finish_unrestored(t, blk, full) ==
    IF ~Ok(t) THEN t
    ELSE IF t.ret # NULL
    THEN ASSERT(ASSERT(t, ~block_free_p(t, blk)), ~block_free_p(t, t.ret))
    ELSE t
\* the tail of split_block: the assertions on a remainder, or
\* blk->len = size + remsize when block_hdr_alloc returned NULL
sb_finish(t, blk, full) ==
    IF ~Ok(t) THEN t
    ELSE IF t.ret # NULL
    THEN ASSERT(ASSERT(t, ~block_free_p(t, blk)), ~block_free_p(t, t.ret))
    ELSE [t EXCEPT !.hdr[blk].len = full]
sb_alloc(t, blk, size, remsize, g, mem) ==
    sb_finish(block_hdr_alloc([t EXCEPT !.hdr[blk].len = size],
                              blk, remsize, g, mem),
              blk, size + remsize)
\* split_block: the remainder block (or NULL) is left in .ret
split_block(t, blk, size, g, mem) ==
    IF ~Ok(t) THEN t
    ELSE IF ~t.ndebug
            /\ (size % 2 # 0
                \/ (block_length(t, blk) - t.blk_hdr_len - size) % 2 # 0)
    THEN ASSERT(t, FALSE)
    ELSE sb_alloc(t, blk, size, block_length(t, blk) - t.blk_hdr_len - size,
                  g, mem)

\* if (block_free_p(b)) { get_mapping(block_length(b), ..); remove_block(..) }
mb_remove(t, b) ==
    IF ~Ok(t) THEN t
    ELSE IF ~block_free_p(t, b) THEN t
    ELSE IF ~mapping_defined(block_length(t, b)) THEN Wild(t)
    ELSE remove_block(t, b, get_mapping(block_length(t, b)).fli,
                      get_mapping(block_length(t, b)).sli)
\* merge_blocks without blk->len += ...: the absorbed length is dropped
mb_extend_none(t, blk, addlen) == t
\* blk->len += tlsf->blk_hdr_len + addlen
mb_extend(t, blk, addlen) ==
    IF ~Ok(t) THEN t
    ELSE [t EXCEPT !.hdr[blk].len = @ + t.blk_hdr_len + addlen]
mb_finish(t, blk) == IF Ok(t) THEN [t EXCEPT !.ret = blk] ELSE t
mb_chain(t, blk, blk2, addlen) ==
    mb_finish(
        block_hdr_free(
            mb_extend(mb_remove(mb_remove(t, blk), blk2), blk, addlen),
            blk2),
        blk)
\* merge_blocks: blk absorbs blk2, the block next to it
merge_blocks(t, blk, blk2) ==
    IF ~Ok(t) THEN t
    ELSE IF ~Known(t, blk) \/ ~Known(t, blk2) THEN Wild(ASSERT(t, FALSE))
    ELSE mb_chain(ASSERT(ASSERT(t, validate_blkhdr(t, blk)),
                         validate_blkhdr(t, blk2)),
                  blk, blk2, block_length(t, blk2))

\* ---- public operations -----------------------------------------------------
\* The search of tlsf_ext_alloc (lines 573-590) for a request already
\* rounded up to TLSF_MBS: the cell to take a block from, or found = FALSE.
\* sli is -1 where the code's sli-- would follow ffsl() = 0.
locate_next(t, fli2) ==
    IF fli2 = 0 THEN [found |-> FALSE, fli |-> 0, sli |-> 0]
    ELSE [found |-> TRUE, fli |-> fli2 - 1,
          sli |-> ffsl_bits(L2(t, fli2 - 1)) - 1]
\* the search with l1_free not masked: any first level will do
locate_in_unmasked(t, m, sli1) ==
    IF sli1 # 0 THEN [found |-> TRUE, fli |-> m.fli, sli |-> sli1 - 1]
    ELSE locate_next(t, ffsl_bits(t.l1_free))
locate_in(t, m, sli1) ==
    IF sli1 # 0 THEN [found |-> TRUE, fli |-> m.fli, sli |-> sli1 - 1]
    ELSE locate_next(t, ffsl_bits(mask_from(t.l1_free, m.fli + 1)))
locate_cell(t, m) == locate_in(t, m, ffsl_bits(mask_from(L2(t, m.fli), m.sli)))
locate(t, size) ==
    locate_cell(t, get_mapping(size + 2 ^ (ilog2(size) - TLSF_SLI_SHIFT) - 1))

\* (blk->len - size) >= (TLSF_MBS + tlsf->blk_hdr_len), in size_t arithmetic:
\* a negative difference wraps to a huge one
over_threshold(t, len, size) ==
    len - size < 0 \/ len - size >= TLSF_MBS + t.blk_hdr_len

ea_ret(t, blk) == IF Ok(t) THEN [t EXCEPT !.ret = blk] ELSE t
\* if (remblk) insert_block(tlsf, remblk)
ea_insert(t) == IF Ok(t) /\ t.ret # NULL THEN insert_block(t, t.ret) ELSE t
ea_split(t, blk, size, g, mem) ==
    IF ~Ok(t) THEN t
    ELSE IF over_threshold(t, t.hdr[blk].len, size)
    THEN ea_ret(ea_insert(split_block(t, blk, size, g, mem)), blk)
    ELSE ea_ret(t, blk)
\* ASSERT(blk != NULL); ASSERT(block_length(blk) >= size)
ea_taken(t, size, g, mem) ==
    IF ~Ok(t) THEN t
    ELSE ea_split(ASSERT(t, block_length(t, t.ret) >= size),
                  t.ret, size, g, mem)
\* the search writing its masked copy of l1_free back before it gives up
ea_found_masked(t, size, c, g, mem) ==
    IF ~c.found
    THEN [t EXCEPT !.ret = NULL,
                   !.l1_free = mask_from(@, get_mapping(size).fli + 1)]
    ELSE IF c.sli < 0 THEN Wild(ASSERT(t, FALSE))
    ELSE ea_taken(remove_block(t, NULL, c.fli, c.sli), size, g, mem)
ea_found(t, size, c, g, mem) ==
    IF ~c.found THEN [t EXCEPT !.ret = NULL]
    ELSE IF c.sli < 0 THEN Wild(ASSERT(t, FALSE))
    ELSE ea_taken(remove_block(t, NULL, c.fli, c.sli), size, g, mem)
ea_size(t, size, g, mem) ==
    IF ~mapping_defined(size) THEN Wild(t)
    ELSE ea_found(t, size, locate(t, size), g, mem)
\* tlsf_ext_alloc without size = roundup2(size, TLSF_MBS)
tlsf_ext_alloc_unrounded(t, n, g, mem) ==
    IF ~Ok(t) THEN t ELSE ea_size(t, n, g, mem)
\* tlsf_ext_alloc with the request rounded up to the pointer size only
tlsf_ext_alloc_word(t, n, g, mem) ==
    IF ~Ok(t) THEN t ELSE ea_size(t, roundup2(n, PTR_LEN), g, mem)
tlsf_ext_alloc(t, n, g, mem) ==
    IF ~Ok(t) THEN t ELSE ea_size(t, roundup2(n, TLSF_MBS), g, mem)

\* tlsf_alloc: the payload pointer
ta_ptr(t) ==
    IF Ok(t) /\ t.ret # NULL THEN [t EXCEPT !.ret = @ + TLSF_BLKHDR_LEN] ELSE t
tlsf_alloc(t, n, g) ==
    ta_ptr(tlsf_ext_alloc(ASSERT(t, t.blk_hdr_len = TLSF_BLKHDR_LEN),
                          n, g, TRUE))

ef_ret(t) == IF Ok(t) THEN [t EXCEPT !.ret = NULL] ELSE t
ef_insert(t, blk) == ef_ret(insert_block(t, blk))
\* if (nextblk && block_free_p(nextblk)) blk = merge_blocks(tlsf, blk, nextblk)
ef_next(t, blk, nextblk) ==
    IF ~Ok(t) THEN t
    ELSE IF nextblk = NULL THEN ef_insert(t, blk)
    ELSE IF ~Known(t, nextblk) THEN Wild(t)
    ELSE IF block_free_p(t, nextblk)
    THEN ef_insert(merge_blocks(t, blk, nextblk), blk)
    ELSE ef_insert(t, blk)
\* if (prevblk && block_free_p(prevblk)) blk = merge_blocks(tlsf, prevblk, blk)
ef_prev(t, blk, prevblk, nextblk) ==
    IF prevblk = NULL THEN ef_next(t, blk, nextblk)
    ELSE IF ~Known(t, prevblk) THEN Wild(t)
    ELSE IF block_free_p(t, prevblk)
    THEN ef_next(merge_blocks(t, prevblk, blk), prevblk, nextblk)
    ELSE ef_next(t, blk, nextblk)
tlsf_ext_free(t, blk) ==
    IF ~Ok(t) THEN t
    ELSE IF ~Known(t, blk) THEN Wild(t)
    ELSE IF ~t.ndebug /\ (block_free_p(t, blk) \/ ~next_in_bounds(t, blk))
    THEN ASSERT(t, FALSE)
    ELSE ef_prev(t, blk, get_prev_physblk(t, blk), get_next_physblk(t, blk))

tlsf_free(t, ptr) ==
    tlsf_ext_free(ASSERT(t, t.blk_hdr_len = TLSF_BLKHDR_LEN),
                  ptr - TLSF_BLKHDR_LEN)

\* tlsf_ext_getaddr returning the offset from the base pointer
tlsf_ext_getaddr_offset(t, blk) ==
    [addr |-> t.hdr[blk].addr - t.baseptr, length |-> block_length(t, blk)]
\* tlsf_ext_getaddr: *length = block_length(blk); return blk->addr
tlsf_ext_getaddr(t, blk) ==
    [addr |-> t.hdr[blk].addr, length |-> block_length(t, blk)]

\* tlsf_destroy: every record of the physical-order list goes back to
\* free(), then the state itself
td_records(t) == {t.blklist[i] : i \in 1..Len(t.blklist)}
\* tlsf_destroy with an if in place of the while: one record is released
tlsf_destroy_first(t) ==
    [t EXCEPT !.hdr = [q \in DOMAIN t.hdr
                               \ {t.blklist[i] : i \in {1} \cap DOMAIN t.blklist}
                          |-> t.hdr[q]],
              !.blklist = <<>>,
              !.ret = NULL]
tlsf_destroy(t) ==
    [t EXCEPT !.hdr = [q \in DOMAIN t.hdr \ td_records(t) |-> t.hdr[q]],
              !.blklist = <<>>,
              !.ret = NULL]

tlsf_unused_space(t) == t.free

\* tlsf_avail_space: the block it looks at (NULL when a bitmap is empty)
avail_blk(t) ==
    IF flsl_bits(t.l1_free) = 0 THEN NULL
    ELSE IF flsl_bits(L2(t, flsl_bits(t.l1_free) - 1)) = 0 THEN NULL
    ELSE MapAt(t, flsl_bits(t.l1_free) - 1,
               flsl_bits(L2(t, flsl_bits(t.l1_free) - 1)) - 1)
\* len = roundup2(len + 1, MBS) - MBS; return (len + 1) - (1UL << (ilog2(len) - SLI_SHIFT))
avail_of(len) == (len + 1) - 2 ^ (ilog2(len) - TLSF_SLI_SHIFT)
avail_len(len) == avail_of(roundup2(len + 1, TLSF_MBS) - TLSF_MBS)
\* the value tlsf_avail_space returns
tlsf_avail_space(t) ==
    IF avail_blk(t) = NULL THEN 0 ELSE avail_len(block_length(t, avail_blk(t)))
\* the call as a whole, with its assertions (lines 774-777)
as_blk(t, blk) ==
    IF blk = NULL THEN [t EXCEPT !.ret = 0]
    ELSE IF ~Known(t, blk) THEN Wild(ASSERT(t, FALSE))
    ELSE IF ~t.ndebug /\ ~(validate_blkhdr(t, blk)
                           /\ tlsf_unused_space(t) >= block_length(t, blk))
    THEN ASSERT(t, FALSE)
    ELSE IF ~mapping_defined(block_length(t, blk)) THEN Wild(t)
    ELSE [t EXCEPT !.ret = avail_len(block_length(t, blk))]
avail_space_call(t) ==
    IF (flsl_bits(t.l1_free) # 0
        /\ flsl_bits(L2(t, flsl_bits(t.l1_free) - 1)) # 0
        /\ avail_blk(t) = NULL)
    THEN Wild(ASSERT(t, FALSE))
    ELSE as_blk(t, avail_blk(t))

\* tlsf_create, after calloc() gave the state (and the first record):
\* the fields before insert_block
tc_state(baseptr, size, exthdr, ndebug, blk) ==
    [ndebug |-> ndebug, baseptr |-> baseptr, size |-> size, free |-> 0,
     blk_hdr_len |-> IF exthdr THEN 0 ELSE TLSF_BLKHDR_LEN,
     blklist |-> IF exthdr THEN <<blk>> ELSE <<>>,
     l1_free |-> {}, l2_free |-> [f \in {} |-> {}],
     map |-> [k \in {} |-> NULL],
     hdr |-> [q \in {blk} |->
                 [len |-> IF exthdr THEN size ELSE size - TLSF_BLKHDR_LEN,
                  addr |-> IF exthdr THEN baseptr ELSE NULL,
                  next |-> NULL, prev |-> NULL]],
     ret |-> NULL, fail |-> "none", oob |-> FALSE]
\* tlsf_create laying the first header at the base pointer in either mode
tlsf_create_inline(baseptr, sz, exthdr, ndebug) ==
    insert_block(tc_state(baseptr, roundup2(sz + 1, TLSF_MBS) - TLSF_MBS,
                          exthdr, ndebug, baseptr),
                 baseptr)
tlsf_create(baseptr, sz, exthdr, ndebug) ==
    insert_block(tc_state(baseptr, roundup2(sz + 1, TLSF_MBS) - TLSF_MBS,
                          exthdr, ndebug, IF exthdr THEN 1 ELSE baseptr),
                 IF exthdr THEN 1 ELSE baseptr)

\* ---- the program and its caller --------------------------------------------
VARIABLES
    tlsf,       \* struct tlsf, the headers it owns, the last result
    held,       \* pointers returned by alloc and not yet passed to free
    op,         \* the last call
    arg,        \* its argument
    bytesfree,  \* tlsf_unused_space() right after tlsf_create()
    left,       \* calls the run is still followed for
    length      \* what the last call stored through its size_t *length

vars == <<tlsf, held, op, arg, bytesfree, left, length>>

BasePtr == BaseUnits * TLSF_BLKHDR_LEN
CreateSizes ==
    {TLSF_MBS * k + r : k \in MinUnits..MaxUnits, r \in {0, TLSF_MBS - 1}}
Requests ==
    {TLSF_MBS * k - d : k \in 1..MaxReqUnits, d \in {0, TLSF_MBS - 1}}
\* what the word at a new INT header's len field may hold: tlsf_create()
\* leaves the extent as it finds it, and the place has been payload, which
\* the caller is free to write
Garbage(t) == {PTR_LEN * k : k \in 0..(t.size \div PTR_LEN)}
\* left = NoLimit: the run is followed for as long as it goes
NoLimit == MaxCalls + 1

EXT == tlsf.blk_hdr_len = 0
\* the header behind a pointer the caller holds
BlkOf(p) == IF EXT THEN p ELSE p - TLSF_BLKHDR_LEN
\* Once a counter or a length has left the extent's range (which only a
\* damaged heap does) the run is followed no further: from there the
\* counters grow without bound.
InRange ==
    /\ tlsf.free \in 0..tlsf.size
    /\ \A b \in DOMAIN tlsf.hdr : tlsf.hdr[b].len \in 0..(tlsf.size + 1)
Running ==
    Ok(tlsf) /\ op \notin {"double_free", "destroy"} /\ InRange /\ left > 0

\* the state after tlsf_create() returned t
Created(t, n) ==
    /\ tlsf = t
    /\ held = {}
    /\ op = "create"
    /\ arg = NULL
    /\ bytesfree = tlsf_unused_space(t)
    /\ left = n
    /\ length = NULL

Init ==
    \E exthdr \in BOOLEAN, ndebug \in BOOLEAN, sz \in CreateSizes :
        Created(tlsf_create(BasePtr, sz, exthdr, ndebug), NoLimit)

\* the bookkeeping of a call o(a)
Called(o, a) ==
    /\ op' = o
    /\ arg' = a
    /\ left' = IF left = NoLimit THEN left ELSE left - 1
    /\ length' = NULL
    /\ UNCHANGED bytesfree
\* the caller keeps a non-null result
Returned ==
    held' = IF Ok(tlsf') /\ tlsf'.ret # NULL
            THEN held \cup {tlsf'.ret} ELSE held

\* tlsf_alloc(tlsf, n)
Alloc(n) ==
    /\ Running
    /\ ~EXT
    /\ \E g \in Garbage(tlsf) : tlsf' = tlsf_alloc(tlsf, n, g)
    /\ Returned
    /\ Called("alloc", n)

\* tlsf_ext_alloc(tlsf, n) on an allocator with external headers
ExtAlloc(n) ==
    /\ Running
    /\ EXT
    /\ \E mem \in BOOLEAN : tlsf' = tlsf_ext_alloc(tlsf, n, NULL, mem)
    /\ Returned
    /\ Called("alloc", n)

\* tlsf_free(tlsf, p) / tlsf_ext_free(tlsf, p)
FreeCall(p) == IF EXT THEN tlsf_ext_free(tlsf, p) ELSE tlsf_free(tlsf, p)

\* ... of a pointer the caller holds
Free(p) ==
    /\ Running
    /\ p \in held
    /\ tlsf' = FreeCall(p)
    /\ held' = held \ {p}
    /\ Called("free", p)

\* A free of a block whose header block_hdr_free has destroyed.
\* INT, debug build: the memset() left a zero header in the extent; its
\* flag is clear, so the guard of tlsf_ext_free passes, and
\* validate_blkhdr (blen >= TLSF_MBS), which merge_blocks and insert_block
\* assert before they change anything, fails.
\* INT, release build: the header is what the caller last wrote there.
\* EXT: the record went back to free(); flag is what a load from it gives.
StaleFree(flag) ==
    IF ~EXT /\ ~tlsf.ndebug THEN ASSERT(tlsf, FALSE)
    ELSE Wild(ASSERT(tlsf, ~flag))

\* ... once more, of the pointer that was just freed
DoubleFree(p) ==
    /\ Running
    /\ op = "free"
    /\ p = arg
    /\ IF Known(tlsf, BlkOf(p)) THEN tlsf' = FreeCall(p)
       ELSE \E flag \in BOOLEAN : tlsf' = StaleFree(flag)
    /\ UNCHANGED held
    /\ Called("double_free", p)

\* alloc of the value tlsf_avail_space() has just returned
AllocAvail ==
    /\ Running
    /\ op = "avail_space"
    /\ tlsf.ret > 0
    /\ IF EXT
       THEN \E mem \in BOOLEAN :
                tlsf' = tlsf_ext_alloc(tlsf, tlsf.ret, NULL, mem)
       ELSE \E g \in Garbage(tlsf) : tlsf' = tlsf_alloc(tlsf, tlsf.ret, g)
    /\ Returned
    /\ Called("alloc_avail", tlsf.ret)

UnusedSpace ==
    /\ Running
    /\ tlsf' = [tlsf EXCEPT !.ret = tlsf_unused_space(tlsf)]
    /\ UNCHANGED held
    /\ Called("unused_space", NULL)

AvailSpace ==
    /\ Running
    /\ tlsf' = avail_space_call(tlsf)
    /\ UNCHANGED held
    /\ Called("avail_space", NULL)

\* tlsf_ext_getaddr(p, &length) of a block the caller holds, or
\* tlsf_ext_getaddr(p, NULL) when the caller does not want the length
ExtGetAddr(p, want) ==
    /\ Running
    /\ EXT
    /\ p \in held
    /\ tlsf' = [tlsf EXCEPT !.ret = tlsf_ext_getaddr(tlsf, p).addr]
    /\ length' = IF want THEN tlsf_ext_getaddr(tlsf, p).length ELSE length
    /\ op' = "ext_getaddr"
    /\ arg' = p
    /\ UNCHANGED <<held, bytesfree, left>>

\* tlsf_destroy(tlsf): the last call of a run
Destroy ==
    /\ Running
    /\ tlsf' = tlsf_destroy(tlsf)
    /\ UNCHANGED held
    /\ Called("destroy", NULL)

Next ==
    \/ \E n \in Requests : Alloc(n)
    \/ \E n \in Requests : ExtAlloc(n)
    \/ \E p \in held : Free(p)
    \/ DoubleFree(arg)
    \/ AllocAvail
    \/ UnusedSpace
    \/ AvailSpace
    \/ \E p \in held, want \in BOOLEAN : ExtGetAddr(p, want)
    \/ Destroy

Spec == Init /\ [][Next]_vars

\* A larger extent with inline headers, in both builds, followed for
\* MaxCalls calls.
DeepInit ==
    \E ndebug \in BOOLEAN :
        Created(tlsf_create(BasePtr, DeepUnits * TLSF_MBS, FALSE, ndebug),
                MaxCalls)
DeepNext ==
    \/ \E n \in Requests : Alloc(n)
    \/ \E p \in held : Free(p)
    \/ DoubleFree(arg)
    \/ AllocAvail
    \/ UnusedSpace
    \/ AvailSpace
DeepSpec == DeepInit /\ [][DeepNext]_vars

\* The boundary cases: the extent of basic_test and extents shorter than
\* TLSF_MBS, in both modes and both builds, and requests of 0.
\* Left out: inline headers on a short extent in a release build, where
\* the first length is size - TLSF_BLKHDR_LEN = 2^64 - 16 in size_t.
TinySizes == {0, TLSF_BLKHDR_LEN, TLSF_MBS - 1}
SmallInit ==
    \E exthdr \in BOOLEAN, ndebug \in BOOLEAN, sz \in {BasicLen} \cup TinySizes :
        /\ (sz \in TinySizes /\ ~exthdr) => ~ndebug
        /\ Created(tlsf_create(BasePtr, sz, exthdr, ndebug), NoLimit)
SmallNext ==
    \/ \E n \in Requests \cup {0} : Alloc(n)
    \/ \E n \in Requests \cup {0} : ExtAlloc(n)
    \/ \E p \in held : Free(p)
    \/ DoubleFree(arg)
    \/ AllocAvail
    \/ UnusedSpace
    \/ AvailSpace
    \/ \E p \in held, want \in BOOLEAN : ExtGetAddr(p, want)
    \/ Destroy
SmallSpec == SmallInit /\ [][SmallNext]_vars

\* An extent with external headers that is long enough for two blocks of
\* different length in one cell of the map: from WideClass on a cell is
\* 2 * TLSF_MBS wide (get_mapping: 2 ^ (fli - TLSF_SLI_SHIFT)).
WideClass == 2 * TLSF_MBS * TLSF_SLI_MAX
BigRequests == {TLSF_MBS, WideClass, WideClass + TLSF_MBS}
BigInit ==
    \E ndebug \in BOOLEAN :
        Created(tlsf_create(BasePtr, BigUnits * TLSF_MBS, TRUE, ndebug),
                BigCalls)
BigNext ==
    \/ \E n \in BigRequests : ExtAlloc(n)
    \/ \E p \in held : Free(p)
    \/ AllocAvail
    \/ AvailSpace
BigSpec == BigInit /\ [][BigNext]_vars

\* A populated heap: the extent is cut into ChainBlocks blocks of TLSF_MBS
\* by as many allocations (the way random_test fills its space; inline
\* headers over a zeroed extent), then every other block is freed, so that
\* one segregation list holds half of the blocks and every free block has
\* allocated neighbours.
FreeOf(t, p) ==
    IF t.blk_hdr_len = 0 THEN tlsf_ext_free(t, p) ELSE tlsf_free(t, p)
AllocOf(t, n) ==
    IF t.blk_hdr_len = 0 THEN tlsf_ext_alloc(t, n, NULL, TRUE)
    ELSE tlsf_alloc(t, n, 0)
RECURSIVE ChainFill(_, _)
ChainFill(t, k) ==
    IF k = 0 THEN t ELSE AllocOf(ChainFill(t, k - 1), TLSF_MBS)
\* the pointer the k-th of these allocations returned: the k-th block in
\* physical order
ChainPtr(t, k) ==
    IF t.blk_hdr_len = 0 THEN t.blklist[k]
    ELSE TLSF_BLKHDR_LEN
           + CHOOSE b \in DOMAIN t.hdr :
                 Cardinality({c \in DOMAIN t.hdr : c < b}) = k - 1
RECURSIVE ChainDrain(_, _, _)
ChainDrain(t, full, k) ==
    IF k = 0 THEN t
    ELSE IF k % 2 = 1
    THEN FreeOf(ChainDrain(t, full, k - 1), ChainPtr(full, k))
    ELSE ChainDrain(t, full, k - 1)
ChainSize(exthdr) ==
    ChainBlocks * (TLSF_MBS + IF exthdr THEN 0 ELSE TLSF_BLKHDR_LEN)
ChainFull(exthdr, ndebug) ==
    ChainFill(tlsf_create(BasePtr, ChainSize(exthdr), exthdr, ndebug),
              ChainBlocks)
ChainStart(full) ==
    /\ tlsf = ChainDrain(full, full, ChainBlocks)
    /\ held = {ChainPtr(full, k) : k \in {i \in 1..ChainBlocks : i % 2 = 0}}
    /\ op = "free"
    /\ arg = ChainPtr(full, ChainBlocks - 1)
    /\ bytesfree = full.size - full.blk_hdr_len
    /\ left = ChainCalls
    /\ length = NULL
ChainInit ==
    \E exthdr \in BOOLEAN, ndebug \in BOOLEAN :
        ChainStart(ChainFull(exthdr, ndebug))
ChainNext ==
    \/ \E n \in Requests : Alloc(n)
    \/ \E n \in Requests : ExtAlloc(n)
    \/ \E p \in held : Free(p)
    \/ UnusedSpace
    \/ AvailSpace
ChainSpec == ChainInit /\ [][ChainNext]_vars

\* ---- properties -------------------------------------------------------------
\* the caller kept to the contract (no pointer was freed twice) and the
\* allocator has not been destroyed
Legal == op \notin {"double_free", "destroy"}
Allocated == op \in {"alloc", "alloc_avail"}

FreeBlocks(t) == {b \in DOMAIN t.hdr : block_free_p(t, b)}
RECURSIVE SumLen(_, _)
SumLen(t, S) ==
    IF S = {} THEN 0
    ELSE LET b == CHOOSE x \in S : TRUE
         IN  block_length(t, b) + SumLen(t, S \ {b})
CounterIsSum(t) == t.free = SumLen(t, FreeBlocks(t))

\* the bytes (INT) or units (EXT) of the block behind a pointer the caller holds
RangeLo(t, p) == IF t.blk_hdr_len = 0 THEN t.hdr[p].addr ELSE p
RangeLen(t, p) ==
    block_length(t, IF t.blk_hdr_len = 0 THEN p ELSE p - TLSF_BLKHDR_LEN)
Disjoint(t, p, q) ==
    \/ RangeLo(t, p) + RangeLen(t, p) <= RangeLo(t, q)
    \/ RangeLo(t, q) + RangeLen(t, q) <= RangeLo(t, p)
HasHdr(t, p) == Known(t, IF t.blk_hdr_len = 0 THEN p ELSE p - TLSF_BLKHDR_LEN)
Overlap(t, H) ==
    \E p, q \in H : p # q /\ HasHdr(t, p) /\ HasHdr(t, q) /\ ~Disjoint(t, p, q)

\* C1: any two blocks that are allocated at the same time cover disjoint
\* ranges (payloads in INT mode, [addr, addr + length) in EXT mode).
NoOverlap == (Ok(tlsf) /\ Legal) => ~Overlap(tlsf, held)

\* C2: once every allocated block has been freed, unused_space is what it
\* was right after tlsf_create.
Conservation ==
    (Ok(tlsf) /\ Legal /\ held = {}) => tlsf_unused_space(tlsf) = bytesfree

\* C3: a non-null result of alloc(n) is a block whose length is at least n
\* and at least n rounded up to a multiple of TLSF_MBS.
AtLeastRequested ==
    (Allocated /\ Ok(tlsf) /\ tlsf.ret # NULL) =>
        /\ HasHdr(tlsf, tlsf.ret)
        /\ RangeLen(tlsf, tlsf.ret) >= arg
        /\ RangeLen(tlsf, tlsf.ret) >= roundup2(arg, TLSF_MBS)

\* a request that is no multiple of TLSF_MBS got a block
AtLeastRequestedSeen ==
    /\ Allocated /\ Ok(tlsf) /\ tlsf.ret # NULL
    /\ arg % TLSF_MBS # 0
    /\ HasHdr(tlsf, tlsf.ret)
    /\ RangeLen(tlsf, tlsf.ret) >= roundup2(arg, TLSF_MBS)

\* the class-rounded request: roundup(n, MBS) plus the rounding increment
ClassRounded(n) ==
    roundup2(n, TLSF_MBS)
        + 2 ^ (ilog2(roundup2(n, TLSF_MBS)) - TLSF_SLI_SHIFT) - 1

\* C4: alloc(n) returns null only when no free block is as long as the
\* class-rounded request.  (A call that returns null leaves the state as it
\* was, so the free blocks after the call are those before it.)
NullOnlyForLackOfSpace ==
    (Allocated /\ Ok(tlsf) /\ tlsf.ret = NULL) =>
        \A b \in FreeBlocks(tlsf) : block_length(tlsf, b) < ClassRounded(arg)

\* C5: after every public operation the free-bytes counter is the sum of
\* the lengths of the blocks whose free flag is set.
FreeCounterIsSum == (Ok(tlsf) /\ Legal) => CounterIsSum(tlsf)

\* C6: an alloc of the positive value avail_space() just returned does not
\* return null, and avail_space() returns 0 when there is no free block.
AvailSatisfiable ==
    /\ (op = "alloc_avail" /\ Ok(tlsf)) => tlsf.ret # NULL
    /\ (op = "avail_space" /\ Ok(tlsf) /\ FreeBlocks(tlsf) = {}) => tlsf.ret = 0

\* tlsf_avail_space() is defined on t: the header it reads is there
AvailDefined(t) ==
    avail_blk(t) = NULL
    \/ (Known(t, avail_blk(t))
        /\ mapping_defined(block_length(t, avail_blk(t))))
\* a step that is a returning alloc call
AllocReturns == op' \in {"alloc", "alloc_avail"} /\ Ok(tlsf) /\ Ok(tlsf')

LargestFree(t) ==
    IF FreeBlocks(t) = {} THEN 0
    ELSE Max({block_length(t, b) : b \in FreeBlocks(t)})

\* the segregation lists are intact at their heads: every head is a free
\* block filed under the cell of its length
HeadsSound(t) ==
    \A c \in DOMAIN t.map :
        /\ Known(t, t.map[c])
        /\ block_free_p(t, t.map[c])
        /\ mapping_defined(block_length(t, t.map[c]))
        /\ get_mapping(block_length(t, t.map[c])) = [fli |-> c[1], sli |-> c[2]]

DoubleFreeDetected ==
    [][(op' = "double_free" /\ ~tlsf.ndebug)
           => tlsf' = [tlsf EXCEPT !.fail = "assert"]]_vars

\* the block tlsf_ext_alloc(n) takes from t, and whether it splits it
Located(t, n) ==
    MapAt(t, locate(t, roundup2(n, TLSF_MBS)).fli,
          locate(t, roundup2(n, TLSF_MBS)).sli)
SplitChosen(t, n) ==
    /\ locate(t, roundup2(n, TLSF_MBS)).found
    /\ Known(t, Located(t, n))
    /\ over_threshold(t, block_length(t, Located(t, n)),
                      roundup2(n, TLSF_MBS))
\* an ext_alloc step that chose to split and whose malloc() failed
OomStep ==
    /\ op' \in {"alloc", "alloc_avail"}
    /\ Running /\ EXT
    /\ SplitChosen(tlsf, arg')
    /\ tlsf' = tlsf_ext_alloc(tlsf, arg', NULL, FALSE)
OomHarmless ==
    /\ Ok(tlsf')
    /\ tlsf'.ret = Located(tlsf, arg')
    /\ tlsf'.hdr[tlsf'.ret].len = block_length(tlsf, tlsf'.ret)
    /\ DOMAIN tlsf'.hdr = DOMAIN tlsf.hdr
    /\ tlsf'.blklist = tlsf.blklist
    /\ CounterIsSum(tlsf')
    /\ ~Overlap(tlsf', held')

\* C9: when ext_alloc chooses to split and malloc() of the header record
\* fails, the call returns the located block with its full length, creates
\* no block, leaves the physical-order list alone, and the free counter,
\* no-overlap and conservation hold on.
ExtOomHarmless ==
    /\ [][OomStep => OomHarmless]_vars
    /\ []((EXT /\ Ok(tlsf) /\ Legal) =>
              /\ CounterIsSum(tlsf)
              /\ ~Overlap(tlsf, held)
              /\ (held = {} => tlsf.free = bytesfree))

\* ext_alloc returned a block it would have split, whole
ExtOomSeen ==
    /\ EXT /\ Allocated /\ Ok(tlsf) /\ tlsf.ret # NULL
    /\ RangeLen(tlsf, tlsf.ret) - roundup2(arg, TLSF_MBS) >= TLSF_MBS
    /\ CounterIsSum(tlsf)

\* C10: in INT mode every header lies inside [base, base + size), the first
\* block has no physical predecessor, and nothing is stored past the extent.
IntInsideExtent ==
    ~EXT =>
        /\ ~tlsf.oob
        /\ \A b \in DOMAIN tlsf.hdr :
               b >= tlsf.baseptr /\ b + TLSF_BLKHDR_LEN <= space_end(tlsf)
        /\ Known(tlsf, tlsf.baseptr) => tlsf.hdr[tlsf.baseptr].addr = NULL

\* the records malloc() hands out
Records == 1..MaxRecs
InExtent(t, p) == p >= t.baseptr /\ p < space_end(t)
\* every pointer the allocator loads or stores through: the headers it
\* owns, the heads of the segregation lists, the list links and the
\* physical-order list.  (In EXT mode addr is a number, never a pointer.)
Derefs(t) ==
    (DOMAIN t.hdr
        \cup {t.map[c] : c \in DOMAIN t.map}
        \cup {t.hdr[b].next : b \in DOMAIN t.hdr}
        \cup {t.hdr[b].prev : b \in DOMAIN t.hdr}
        \cup {t.blklist[i] : i \in 1..Len(t.blklist)}) \ {NULL}

\* C11: with external headers no operation loads or stores inside
\* [base, base + size): every pointer the allocator follows, and every
\* handle it gave out, is a malloc'ed record, and nothing is stored into
\* or past the extent.
ExtExtentUntouched ==
    EXT =>
        /\ ~tlsf.oob
        /\ \A p \in Derefs(tlsf) \cup held :
               p \in Records /\ ~InExtent(tlsf, p)
\* an EXT allocator after splits and a free, with blocks still held
ExtExtentUntouchedSeen ==
    /\ EXT /\ Ok(tlsf) /\ op = "free"
    /\ held # {}
    /\ Cardinality(DOMAIN tlsf.hdr) >= 3

\* two states of the allocator that differ at most in the last result
Same(t, u) == [t EXCEPT !.ret = NULL] = [u EXCEPT !.ret = NULL]
\* basic_test: the allocator after create, after one and after two alloc(1)
Basic0(t) == tlsf_create(BasePtr, BasicLen, FALSE, t.ndebug)
Basic1(t, g) == tlsf_alloc(Basic0(t), 1, g)
Basic2(t, g1, g2) == tlsf_alloc(Basic1(t, g1), 1, g2)
BasicStage0 == Same(tlsf, Basic0(tlsf))
BasicStage1 == \E g \in Garbage(tlsf) : Same(tlsf, Basic1(tlsf, g))
BasicStage2 ==
    \E g1, g2 \in Garbage(tlsf) : Same(tlsf, Basic2(tlsf, g1, g2))
BasicAlloc == op' = "alloc" /\ arg' = 1 /\ ~EXT /\ tlsf.size = BasicLen

\* C12: on a 96-byte extent with inline headers the first alloc(1) returns
\* non-null and leaves unused_space > 0 and avail_space > 0, the second
\* returns non-null and leaves both at 0, the third returns null.
BasicScenario ==
    [][BasicAlloc =>
         /\ BasicStage0 =>
                /\ Ok(tlsf') /\ tlsf'.ret # NULL
                /\ tlsf_unused_space(tlsf') > 0
                /\ tlsf_avail_space(tlsf') > 0
         /\ BasicStage1 =>
                /\ Ok(tlsf') /\ tlsf'.ret # NULL
                /\ tlsf_unused_space(tlsf') = 0
                /\ tlsf_avail_space(tlsf') = 0
         /\ BasicStage2 => (Ok(tlsf') /\ tlsf'.ret = NULL)]_vars

\* EXT: where the block after b in physical order starts (the end of the
\* extent after the last block)
NextAddr(t, b) ==
    IF TAILQ_NEXT(t.blklist, b) = NULL THEN space_end(t)
    ELSE t.hdr[TAILQ_NEXT(t.blklist, b)].addr
Covers(t, b, a) ==
    t.hdr[b].addr <= a /\ a < t.hdr[b].addr + block_length(t, b)
\* b is a free block that ends where its successor starts and has no free
\* physical neighbour
Coalesced(t, b) ==
    /\ block_free_p(t, b)
    /\ t.hdr[b].addr + block_length(t, b) = NextAddr(t, b)
    /\ TAILQ_NEXT(t.blklist, b) # NULL
           => ~block_free_p(t, TAILQ_NEXT(t.blklist, b))
    /\ TAILQ_PREV(t.blklist, b) # NULL
           => ~block_free_p(t, TAILQ_PREV(t.blklist, b))
ExtFreeStep == op' = "free" /\ EXT /\ Ok(tlsf) /\ Ok(tlsf')
\* one free block that is the whole extent
SingleFree(t) ==
    /\ Len(t.blklist) = 1
    /\ DOMAIN t.hdr = {t.blklist[1]}
    /\ t.hdr[t.blklist[1]].addr = t.baseptr
    /\ t.hdr[t.blklist[1]].len = t.size + TLSF_BLK_FREE

\* C13: in EXT mode a free leaves the freed range inside one free block
\* that ends exactly where the next block starts and has no free
\* neighbour (A, B, C allocated, B then A freed: it ends at C.addr); once
\* every block is freed, in any order, the physical chain is one free
\* block at the base as long as the extent.
FullCoalescing ==
    /\ [][ExtFreeStep =>
             \E b \in DOMAIN tlsf'.hdr :
                 /\ Covers(tlsf', b, tlsf.hdr[arg'].addr)
                 /\ Coalesced(tlsf', b)]_vars
    /\ []((EXT /\ Ok(tlsf) /\ Legal /\ held = {}) => SingleFree(tlsf))
\* A was freed after B and absorbed it (B's record, handed out between A's
\* and C's, is gone); C, right after them, is still allocated
FullCoalescingSeen ==
    /\ EXT /\ Ok(tlsf) /\ op = "free"
    /\ Known(tlsf, arg)
    /\ block_free_p(tlsf, arg)
    /\ tlsf.hdr[arg].addr = tlsf.baseptr
    /\ block_length(tlsf, arg) >= 2 * TLSF_MBS
    /\ TAILQ_NEXT(tlsf.blklist, arg) \in held
    /\ \E r \in Records :
           /\ ~Known(tlsf, r)
           /\ arg < r /\ r < TAILQ_NEXT(tlsf.blklist, arg)

\* the outcomes of an alloc of TLSF_MBS bytes/units from the state t
AllocOfMBS(t) ==
    IF t.blk_hdr_len = 0
    THEN {tlsf_ext_alloc(t, TLSF_MBS, NULL, mem) : mem \in BOOLEAN}
    ELSE {tlsf_alloc(t, TLSF_MBS, g) : g \in Garbage(t)}

\* C14: alloc(0) is well defined and does what alloc(TLSF_MBS) does from
\* the same state: same result, same state after it, every index in range.
ZeroLikeMBS ==
    [][(op' = "alloc" /\ arg' = 0 /\ Ok(tlsf))
           => (Ok(tlsf') /\ tlsf' \in AllocOfMBS(tlsf))]_vars

\* C15: tlsf_create with a size below TLSF_MBS gives a working allocator
\* with no usable space: no block is filed in the segregation map and
\* every alloc returns null.
TinyCreateUsable ==
    tlsf.size < TLSF_MBS =>
        /\ Ok(tlsf)
        /\ DOMAIN tlsf.map = {}
        /\ Allocated => tlsf.ret = NULL

\* EXT: the blocks before b in physical order, and the offset of b in the
\* extent as the sum of their lengths
Before(t, b) == {t.blklist[i] : i \in 1..(IndexOf(t.blklist, b) - 1)}
Offset(t, b) == SumLen(t, Before(t, b))
GetAddrStep == op' = "ext_getaddr" /\ Known(tlsf, arg')
\* the call changed nothing but the result, and the length it stored (if
\* asked to) is the block's
GetAddrFrame ==
    /\ tlsf' = [tlsf EXCEPT !.ret = tlsf'.ret]
    /\ held' = held
    /\ length' \in {length, tlsf.hdr[arg'].len}
    /\ length' \in {length, NextAddr(tlsf, arg') - tlsf.hdr[arg'].addr}

AvailMonotone ==
    [][(op' = "alloc_avail" /\ Ok(tlsf) /\ Ok(tlsf') /\ AvailDefined(tlsf'))
           => tlsf_avail_space(tlsf') <= arg']_vars

\* what a call wrote: the headers, cells of the head map and second-level
\* words that differ between the state before and the state after it
HdrTouched(t, u) ==
    {b \in DOMAIN t.hdr \cup DOMAIN u.hdr :
        ~(b \in DOMAIN t.hdr /\ b \in DOMAIN u.hdr /\ t.hdr[b] = u.hdr[b])}
CellsTouched(t, u) ==
    {c \in DOMAIN t.map \cup DOMAIN u.map :
        MapAt(t, c[1], c[2]) # MapAt(u, c[1], c[2])}
WordsTouched(t, u) ==
    {f \in DOMAIN t.l2_free \cup DOMAIN u.l2_free : L2(t, f) # L2(u, f)}
\* alloc: remove_block (the block, its list successor), split_block (the
\* remainder, the block after it), insert_block (the old head)
AllocWrites == 2 + 2 + 1
\* free: the block, remove_block for either free neighbour (the neighbour
\* and its two list neighbours), block_hdr_free (the block after the
\* successor), insert_block (the old head)
FreeWrites == 1 + 3 + 3 + 1 + 1
Within(t, u, headers, cells) ==
    /\ Cardinality(HdrTouched(t, u)) <= headers
    /\ Cardinality(CellsTouched(t, u)) <= cells
    /\ Cardinality(WordsTouched(t, u)) <= cells

BitmapAgreesWithMap ==
    (Ok(tlsf) /\ Legal) =>
        /\ \A c \in DOMAIN tlsf.map :
               tlsf.map[c] # NULL => c[2] \in L2(tlsf, c[1])
        /\ \A f \in DOMAIN tlsf.l2_free :
               \A sl \in tlsf.l2_free[f] : MapAt(tlsf, f, sl) # NULL

\* C20: after every public operation bit fl of l1_free is set if and only
\* if l2_free[fl] is non-zero, for every fl.
FirstLevelSummarises ==
    (Ok(tlsf) /\ Legal) =>
        \A f \in 0..(TLSF_FLI_MAX - 1) : (f \in tlsf.l1_free) <=> (L2(tlsf, f) # {})
\* two first-level classes hold free blocks after a call that took a block
\* off a list and put one on a list
FirstLevelSummarisesSeen ==
    /\ Ok(tlsf) /\ Legal
    /\ op \in {"alloc", "free"}
    /\ Cardinality(tlsf.l1_free) >= 2
    /\ Cardinality(DOMAIN tlsf.hdr) >= 3

\* ---- the physical chain -----------------------------------------------------
\* next(prev(B)) == B and prev(next(B)) == B for every block B with that
\* neighbour
ChainSound(t) ==
    \A b \in DOMAIN t.hdr :
        /\ get_prev_physblk(t, b) # NULL =>
               /\ Known(t, get_prev_physblk(t, b))
               /\ get_next_physblk(t, get_prev_physblk(t, b)) = b
        /\ get_next_physblk(t, b) # NULL =>
               /\ Known(t, get_next_physblk(t, b))
               /\ get_prev_physblk(t, get_next_physblk(t, b)) = b

\* C24: after every public operation next(prev(B)) == B when prev(B) exists
\* and prev(next(B)) == B when next(B) exists, for every block B; with
\* inline headers also after a split whose remainder is made where other
\* bytes were stored before.
PhysChainConsistent == (Ok(tlsf) /\ Legal) => ChainSound(tlsf)

\* where a block starts and where the next one has to start
StartOf(t, b) == IF t.blk_hdr_len # 0 THEN b ELSE t.hdr[b].addr
EndOf(t, b) == StartOf(t, b) + t.blk_hdr_len + block_length(t, b)
RECURSIVE SumSpan(_, _)
SumSpan(t, S) ==
    IF S = {} THEN 0
    ELSE LET b == CHOOSE x \in S : TRUE
         IN  (EndOf(t, b) - StartOf(t, b)) + SumSpan(t, S \ {b})
\* the blocks partition [baseptr, baseptr + size): one starts at baseptr,
\* each is followed by its physical successor or ends the extent, no two
\* overlap, and their spans add up to size
Tiles(t) ==
    /\ \E b \in DOMAIN t.hdr : StartOf(t, b) = t.baseptr
    /\ \A b \in DOMAIN t.hdr :
           /\ StartOf(t, b) >= t.baseptr
           /\ StartOf(t, b) < EndOf(t, b)
           /\ EndOf(t, b) <= space_end(t)
           /\ IF EndOf(t, b) = space_end(t)
              THEN get_next_physblk(t, b) = NULL
              ELSE /\ Known(t, get_next_physblk(t, b))
                   /\ StartOf(t, get_next_physblk(t, b)) = EndOf(t, b)
    /\ \A a, b \in DOMAIN t.hdr :
           a # b => (EndOf(t, a) <= StartOf(t, b) \/ EndOf(t, b) <= StartOf(t, a))
    /\ SumSpan(t, DOMAIN t.hdr) = t.size

\* C28: in every reachable state the blocks in physical order partition the
\* managed extent with no gap and no overlap, from base to base + size, so
\* that header_len + length summed over the blocks is the aligned size.
BlocksTile == (Ok(tlsf) /\ Legal) => Tiles(tlsf)

\* every block is at least TLSF_MBS long and its length a multiple of unit
LengthsIn(t, unit) ==
    \A b \in DOMAIN t.hdr :
        block_length(t, b) >= TLSF_MBS /\ block_length(t, b) % unit = 0

RECURSIVE Walk(_, _, _)
Walk(t, p, n) ==
    IF p = NULL \/ ~Known(t, p) \/ n = 0 THEN <<>>
    ELSE <<p>> \o Walk(t, t.hdr[p].next, n - 1)
CellList(t, c) == Walk(t, t.map[c], Cardinality(DOMAIN t.hdr) + 1)
Times(q, x) == Cardinality({i \in 1..Len(q) : q[i] = x})
CellOf(len) == <<get_mapping(len).fli, get_mapping(len).sli>>
\* head.prev is null, x.next.prev == x, the list ends, its members are free
WellFormed(t, c) ==
    /\ Known(t, t.map[c])
    /\ t.hdr[t.map[c]].prev = NULL
    /\ Len(CellList(t, c)) <= Cardinality(DOMAIN t.hdr)
    /\ \A i \in 1..Len(CellList(t, c)) :
           /\ block_free_p(t, CellList(t, c)[i])
           /\ t.hdr[CellList(t, c)[i]].next # NULL =>
                  /\ Known(t, t.hdr[CellList(t, c)[i]].next)
                  /\ t.hdr[t.hdr[CellList(t, c)[i]].next].prev = CellList(t, c)[i]
\* a free block is once in the list of the cell of its length and in no other
Filed(t, b) ==
    /\ mapping_defined(block_length(t, b))
    /\ \A c \in DOMAIN t.map :
           Times(CellList(t, c), b) =
               (IF c = CellOf(block_length(t, b)) THEN 1 ELSE 0)
    /\ CellOf(block_length(t, b)) \in DOMAIN t.map
Segregated(t) ==
    /\ \A c \in DOMAIN t.map : WellFormed(t, c)
    /\ \A b \in FreeBlocks(t) : Filed(t, b)

\* C22: after every public operation every block with the free flag set is
\* linked in exactly one segregation list, the one of the cell its length
\* maps to; each list is a well-formed doubly linked list; and no allocated
\* block is linked in any list.
ListMembership == (Ok(tlsf) /\ Legal) => Segregated(tlsf)

\* no free block starts where another free block ends
NoAdjacentFree(t) ==
    \A a, b \in FreeBlocks(t) : EndOf(t, a) # StartOf(t, b)

\* C23: after every public operation (create, alloc, free and their ext_
\* forms) no two physically adjacent blocks both have the free flag set.
NoTwoFreeNeighbours == (Ok(tlsf) /\ Legal) => NoAdjacentFree(tlsf)

\* ---- the split rule ------------------------------------------------------------
\* a call of alloc/ext_alloc that returned a block, no malloc() of a header
\* record having failed
AllocStep ==
    /\ Ok(tlsf) /\ Ok(tlsf')
    /\ op' \in {"alloc", "alloc_avail"}
    /\ tlsf'.ret # NULL
    /\ EXT => tlsf' = tlsf_ext_alloc(tlsf, arg', NULL, TRUE)
\* r is the one block the call created: free, L - header_len - s long, right
\* behind the s bytes left to blk, and filed at the head of its list
Remainder(blk, r, len) ==
    /\ DOMAIN tlsf'.hdr = DOMAIN tlsf.hdr \cup {r}
    /\ block_free_p(tlsf', r)
    /\ block_length(tlsf', r) = len
    /\ StartOf(tlsf', r) = EndOf(tlsf', blk)
    /\ CellOf(len) \in DOMAIN tlsf'.map
    /\ tlsf'.map[CellOf(len)] = r
SplitRule(blk, s, L) ==
    /\ ~block_free_p(tlsf', blk)
    /\ IF L - s >= TLSF_MBS + tlsf.blk_hdr_len
       THEN /\ block_length(tlsf', blk) = s
            /\ \E r \in DOMAIN tlsf'.hdr \ DOMAIN tlsf.hdr :
                   Remainder(blk, r, L - tlsf.blk_hdr_len - s)
       ELSE /\ block_length(tlsf', blk) = L
            /\ DOMAIN tlsf'.hdr = DOMAIN tlsf.hdr
    /\ block_length(tlsf', blk) - s <= TLSF_MBS + tlsf.blk_hdr_len - 1
SplitStep ==
    AllocStep =>
        /\ Known(tlsf, BlkOf(tlsf'.ret)) /\ Known(tlsf', BlkOf(tlsf'.ret))
        /\ block_free_p(tlsf, BlkOf(tlsf'.ret))
        /\ SplitRule(BlkOf(tlsf'.ret), roundup2(arg', TLSF_MBS),
                     block_length(tlsf, BlkOf(tlsf'.ret)))

CellsFrom(t, len) ==
    {c \in DOMAIN t.map :
        \/ c[1] > get_mapping(len).fli
        \/ c[1] = get_mapping(len).fli /\ c[2] >= get_mapping(len).sli}
\* the lowest of them: lowest second level of the lowest first level
Lowest(C) ==
    CHOOSE c \in C :
        \A d \in C : c[1] < d[1] \/ (c[1] = d[1] /\ c[2] <= d[2])
GoodFit(t, n, blk) ==
    /\ CellsFrom(t, ClassRounded(n)) # {}
    /\ blk = t.map[Lowest(CellsFrom(t, ClassRounded(n)))]
\* a call of alloc/ext_alloc that returned a block
TakeStep ==
    /\ Ok(tlsf) /\ Ok(tlsf')
    /\ op' \in {"alloc", "alloc_avail"}
    /\ tlsf'.ret # NULL

\* C26: the block alloc removes is the head of the lowest non-empty cell at
\* or above the cell of the class-rounded request: the lowest non-empty
\* second level >= sl of the same first level if there is one, otherwise
\* the lowest non-empty second level of the lowest non-empty first level
\* above; no cell below the request's cell is chosen.
GoodFitSelection ==
    [][TakeStep => GoodFit(tlsf, arg', BlkOf(tlsf'.ret))]_vars

\* ---- header records -------------------------------------------------------------
\* the records malloc() gave and free() has not taken back are the members
\* of the physical-order list, each of them once
RecordsLive(t) ==
    /\ td_records(t) = DOMAIN t.hdr
    /\ Len(t.blklist) = Cardinality(DOMAIN t.hdr)
\* tlsf_destroy() released the records of the list and left none
DestroyStep ==
    (EXT /\ op' = "destroy") =>
        /\ RecordsLive(tlsf)
        /\ DOMAIN tlsf'.hdr = {}
        /\ tlsf'.blklist = <<>>

\* C27: in every reachable state of an EXT allocator the header records
\* obtained from the heap and not yet released are the members of the
\* physical-order list, one per live block, and destroy releases each of
\* them exactly once.
ExtRecordsAccounted ==
    /\ []((EXT /\ Ok(tlsf) /\ op # "double_free") => RecordsLive(tlsf))
    /\ [][DestroyStep]_vars
\* an EXT allocator destroyed while the caller held two blocks or more
ExtRecordsAccountedSeen ==
    /\ EXT /\ op = "destroy"
    /\ Cardinality(held) >= 2
    /\ DOMAIN tlsf.hdr = {}

\* ---- a failed allocation ------------------------------------------------------
\* a call of alloc/ext_alloc that returned null
NullStep == AllocReturns /\ tlsf'.ret = NULL
NothingChanged ==
    /\ Same(tlsf, tlsf')
    /\ tlsf_unused_space(tlsf') = tlsf_unused_space(tlsf)
    /\ Same(avail_space_call(tlsf'), avail_space_call(tlsf))
    /\ avail_space_call(tlsf').ret = avail_space_call(tlsf).ret
    /\ held' = held

\* C29: when alloc/ext_alloc returns null the allocator state (free counter,
\* both bitmap levels, head map, every block's length, flag and links, the
\* physical chain) is the state before the call, and unused_space and
\* avail_space return what they returned before.
FailedAllocChangesNothing == [][NullStep => NothingChanged]_vars
\* an alloc has just returned null with blocks held and a free block left
FailedAllocChangesNothingSeen ==
    /\ Allocated /\ Ok(tlsf) /\ tlsf.ret = NULL
    /\ held # {}
    /\ FreeBlocks(tlsf) # {}
    /\ tlsf.l1_free # {}

====
